---- MODULE Spec2Model ----
(***************************************************************************)
(* A model of the token-bucket rate limiter of src/src/lib.rs.             *)
(*                                                                         *)
(* The limiter is five words: rate, allowance, max, unit and last_check.   *)
(* unit is fixed at construction, the other four are AtomicU64 cells that  *)
(* every thread reads and writes with Relaxed atomic operations.  Each     *)
(* atomic operation of limit(), undo() and update_rate() is one action of  *)
(* the model, so that every interleaving of the operations of several      *)
(* threads is a behaviour.  A thread's local variables (rate, now, passed, *)
(* prev, curr, max) are per-thread functions.                              *)
(*                                                                         *)
(* Words are u64 in the source.  The model keeps the arithmetic of a       *)
(* WordBits-wide unsigned word: every stored value is reduced modulo       *)
(* 2^WordBits.  The atomic fetch_add / fetch_sub always wrap.  The plain   *)
(* operators +, - and * of the source wrap when the crate is built without *)
(* overflow checks (the release profile) and panic when it is built with   *)
(* them (the dev and test profiles): overflow_checks is the profile of the *)
(* build, chosen once, and a panicking thread stops where it is.           *)
(***************************************************************************)
EXTENDS Integers, FiniteSets, Sequences, TLC

(***************************************************************************)
(* Bounds of the model.                                                    *)
(***************************************************************************)
\* Width of a machine word (u64 in the source, scaled down).
WordBits == 5
\* Largest rate handed to new() and update_rate().
MaxRate == 2
\* Largest period, in nanoseconds, handed to new().
MaxPeriod == 3
\* The clock of a single-threaded run reads StartClock + 0 .. ShortIdle, or
\* LongIdle later than that: it advances a little between the calls of a burst,
\* and it advances a lot when the caller lets the limiter rest.
ShortIdle == 1
LongIdle == 16
\* Number of calls of a single-threaded run.
MaxCallsSeq == 4
\* Number of threads sharing the limiter.
NumThreads == 2
\* Total number of calls of the threads of a concurrent run.
MaxCalls == 3
\* The clock of a concurrent run stops at StartClock + MaxClock.
MaxClock == 1

Modulus == 2 ^ WordBits

Threads == 1 .. NumThreads

\* chrono::Duration::seconds(1).num_nanoseconds(): the clock of the model is
\* scaled so that one second is the longest period.
NanosPerSecond == MaxPeriod

\* The clock reading at construction.
StartClock == 0

\* The clock readings of a single-threaded run.
SeqClocks == {StartClock + d : d \in (0 .. ShortIdle) \cup (LongIdle .. LongIdle + ShortIdle)}

\* Arguments of new(rate, per) and update_rate(rate): signed integers.
RateArgs == -1 .. MaxRate
PeriodArgs == 0 .. MaxPeriod

\* i64::MIN and i64::MAX of a WordBits-wide signed integer.
MinInt == -(2 ^ (WordBits - 1))
MaxInt == 2 ^ (WordBits - 1) - 1

\* A Duration of more nanoseconds than an i64 holds.
LongPeriod == MaxInt + 1

\* Arguments of a call of new() that is followed from its start: the ones
\* above, the extreme rates, a negative period and a very long one.
RateArgsNew == {MinInt} \cup RateArgs \cup {MaxInt}
PeriodArgsNew == (-1 .. MaxPeriod) \cup {LongPeriod}

VARIABLES
    rate,            \* Limiter.rate
    allowance,       \* Limiter.allowance
    max,             \* Limiter.max
    unit,            \* Limiter.unit
    last_check,      \* Limiter.last_check
    clock,           \* what unix_nano() returns now
    overflow_checks, \* TRUE: +, -, * panic on overflow; FALSE: they wrap
    pc,              \* pc[t]: where thread t is
    l_rate,          \* the local `rate` of limit() and update_rate()
    l_now,           \* the local `now` of limit()
    l_passed,        \* the local `passed` of limit()
    l_prev,          \* the local `prev` of limit() and undo()
    l_curr,          \* the local `curr` of limit()
    l_max,           \* the local `max` of limit() and undo()
    started,         \* number of calls begun
    limits,          \* number of limit() calls begun
    admitted,        \* number of limit() calls that returned false
    credited,        \* sum of the `passed` values the limit() calls computed
    solo,            \* the thread whose latest call no other thread overlapped
    hist,            \* what a caller saw of a run in which one thread calls
    ctor             \* the call of new(): its arguments and how far it is

limiter == <<rate, allowance, max, unit, last_check>>
locals == <<l_rate, l_now, l_passed, l_prev, l_curr, l_max>>
counters == <<started, limits, admitted>>
vars == <<rate, allowance, max, unit, last_check, clock, overflow_checks, pc,
          l_rate, l_now, l_passed, l_prev, l_curr, l_max,
          started, limits, admitted, credited, solo, hist, ctor>>

(***************************************************************************)
(* Machine arithmetic.                                                     *)
(***************************************************************************)
\* The value a word holds after an operation whose exact result is x.
Wrap(x) == x % Modulus

\* The exact result x does not fit a word.
Overflows(x) == x < 0 \/ x >= Modulus

\* A checked operator of the source panics on this exact result.
Panics(x) == overflow_checks /\ Overflows(x)

\* `rate as u64` of a signed argument.
AsU64(r) == Wrap(r)

\* unix_nano()
UnixNano == Wrap(clock)

(***************************************************************************)
(* Limiter::new                                                            *)
(***************************************************************************)
\* line 16: per.num_nanoseconds() is Some(n): the nanoseconds fit an i64.
HasNanoseconds(per) == per \in MinInt .. MaxInt

\* per.num_nanoseconds() as u64, defaulted to one second when below 1.
NewUnit(per) == IF AsU64(per) < 1 THEN NanosPerSecond ELSE AsU64(per)

\* The rate argument, raised to 1.
NewRate(r) == IF r < 1 THEN 1 ELSE r

\* rate * nano of new() fits a word: the configurations the limiter supports.
Supported(r, per) == ~Overflows(NewRate(r) * NewUnit(per))

Idle == {"ready", "ret_limit", "ret_undo", "ret_update"}
Quiescent == Idle \cup {"panicked"}

(***************************************************************************)
(* The history of a single-threaded run, as its caller sees it.            *)
(*   live   only one thread has called so far                              *)
(*   last   what the latest call returned, if it was limit()               *)
(*   snap   the allowance the latest limit() found, kept through an undo() *)
(*          that follows it directly when it returned false; -1 otherwise  *)
(*   upd    the clock when the latest update_rate() returned, -1 if none   *)
(*          or if an undo() followed it                                    *)
(*   first  the clock the first limit() after that update_rate() read      *)
(*   burst  the limit() calls that returned since that update_rate()       *)
(*   badm   those of them that returned false                              *)
(*   a0     the allowance that the latest limit() whose clamp fired left   *)
(*          (new(), before any has), -1 once undo() or update_rate() ran   *)
(*   c0     last_check then                                                *)
(*   n0     the number of limit() calls that had returned false then       *)
(***************************************************************************)
NoHist == [live |-> FALSE, last |-> "none", snap |-> -1, upd |-> -1, first |-> -1,
           burst |-> 0, badm |-> 0, a0 |-> -1, c0 |-> -1, n0 |-> -1]

\* The call of new() of a run that begins after it: built, its arguments
\* not recorded.
Built == [state |-> "built", rate |-> 0, per |-> 0, at |-> StartClock]

Init ==
    /\ \E r \in RateArgs, per \in PeriodArgs :
          /\ Supported(r, per)
          /\ rate = NewRate(r)
          /\ allowance = Wrap(NewRate(r) * NewUnit(per))
          /\ max = Wrap(NewRate(r) * NewUnit(per))
          /\ unit = NewUnit(per)
    /\ clock = StartClock
    /\ last_check = Wrap(StartClock)
    /\ overflow_checks \in BOOLEAN
    /\ ctor = Built
    /\ credited = 0
    /\ pc = [t \in Threads |-> "ready"]
    /\ l_rate = [t \in Threads |-> 0]
    /\ l_now = [t \in Threads |-> 0]
    /\ l_passed = [t \in Threads |-> 0]
    /\ l_prev = [t \in Threads |-> 0]
    /\ l_curr = [t \in Threads |-> 0]
    /\ l_max = [t \in Threads |-> 0]
    /\ started = 0
    /\ limits = 0
    /\ admitted = 0
    /\ solo = 0
    /\ hist = [NoHist EXCEPT !.live = TRUE, !.a0 = allowance, !.c0 = last_check,
                             !.n0 = 0]

\* InitNew: new(r, per) is about to be called; there is no limiter yet.
InitNew ==
    /\ \E r \in RateArgsNew, per \in PeriodArgsNew :
          ctor = [state |-> "args", rate |-> r, per |-> per, at |-> StartClock]
    /\ rate = 0
    /\ allowance = 0
    /\ max = 0
    /\ unit = 0
    /\ last_check = 0
    /\ clock = StartClock
    /\ overflow_checks \in BOOLEAN
    /\ credited = 0
    /\ pc = [t \in Threads |-> "ready"]
    /\ l_rate = [t \in Threads |-> 0]
    /\ l_now = [t \in Threads |-> 0]
    /\ l_passed = [t \in Threads |-> 0]
    /\ l_prev = [t \in Threads |-> 0]
    /\ l_curr = [t \in Threads |-> 0]
    /\ l_max = [t \in Threads |-> 0]
    /\ started = 0
    /\ limits = 0
    /\ admitted = 0
    /\ solo = 0
    /\ hist = [NoHist EXCEPT !.live = TRUE]

\* lines 15-34: new(ctor.rate, ctor.per).  The unwrap() of line 16 panics on a
\* period of too many nanoseconds, rate * nano panics or wraps.
New ==
    /\ ctor.state = "args"
    /\ IF ~HasNanoseconds(ctor.per) \/ Panics(NewRate(ctor.rate) * NewUnit(ctor.per))
       THEN /\ ctor' = [ctor EXCEPT !.state = "panicked", !.at = clock]
            /\ UNCHANGED <<rate, allowance, max, unit, last_check>>
       ELSE /\ rate' = AsU64(NewRate(ctor.rate))
            /\ allowance' = Wrap(NewRate(ctor.rate) * NewUnit(ctor.per))
            /\ max' = Wrap(NewRate(ctor.rate) * NewUnit(ctor.per))
            /\ unit' = NewUnit(ctor.per)
            /\ last_check' = UnixNano
            /\ ctor' = [ctor EXCEPT !.state = "built", !.at = clock]
    /\ UNCHANGED <<clock, overflow_checks, credited, pc, l_rate, l_now, l_passed, l_prev,
                   l_curr, l_max, started, limits, admitted, solo, hist>>

(***************************************************************************)
(* A call begins, returns or panics.                                       *)
(***************************************************************************)
OthersQuiescent(t) == \A u \in Threads \ {t} : pc[u] \in Quiescent

OthersReady(t) == \A u \in Threads \ {t} : pc[u] = "ready"

\* The history after a step of thread t that makes it h: the history is dropped
\* for good when a second thread calls.
Seen(t, h) == IF hist.live /\ OthersReady(t) THEN h ELSE NoHist

\* Thread t begins a call: it runs alone as long as no other thread is inside
\* a call now and none begins one later.
Begin(t) ==
    /\ pc[t] \in Idle
    /\ started' = started + 1
    /\ solo' = IF OthersQuiescent(t) THEN t ELSE 0

\* The locals of a call die with it.
Clear(t) ==
    /\ l_rate' = [l_rate EXCEPT ![t] = 0]
    /\ l_now' = [l_now EXCEPT ![t] = 0]
    /\ l_passed' = [l_passed EXCEPT ![t] = 0]
    /\ l_prev' = [l_prev EXCEPT ![t] = 0]
    /\ l_curr' = [l_curr EXCEPT ![t] = 0]
    /\ l_max' = [l_max EXCEPT ![t] = 0]

Return(t, label) ==
    /\ pc' = [pc EXCEPT ![t] = label]
    /\ Clear(t)

Panic(t) == Return(t, "panicked")

(***************************************************************************)
(* The clock                                                               *)
(***************************************************************************)
\* The clock advances by d nanoseconds.
Tick(d) ==
    /\ clock' = clock + d
    /\ UNCHANGED <<limiter, overflow_checks, ctor, credited, pc, locals, counters, solo, hist>>

\* The clock is the wall clock (chrono::Utc::now()): an adjustment sets it
\* back by d nanoseconds.
Regress(d) == Tick(0 - d)

(***************************************************************************)
(* Limiter::limit                                                          *)
(***************************************************************************)
\* prev + (passed * rate), lines 61 and 74: the exact value.
AccrueExact(prev, passed, r) == prev + passed * r

\* line 46: let rate = self.rate.load(Relaxed)
LimitLoadRate(t) ==
    /\ Begin(t)
    /\ l_rate' = [l_rate EXCEPT ![t] = rate]
    /\ pc' = [pc EXCEPT ![t] = "l_now"]
    /\ limits' = limits + 1
    /\ hist' = Seen(t, [hist EXCEPT !.snap = allowance])
    /\ UNCHANGED <<limiter, clock, overflow_checks, ctor, credited, l_now, l_passed, l_prev, l_curr,
                   l_max, admitted>>

\* line 51: let now = unix_nano()
LimitReadClock(t) ==
    /\ pc[t] = "l_now"
    /\ l_now' = [l_now EXCEPT ![t] = UnixNano]
    /\ pc' = [pc EXCEPT ![t] = "l_swap"]
    /\ hist' = Seen(t, IF hist.upd >= 0 /\ hist.first < 0
                       THEN [hist EXCEPT !.first = clock] ELSE hist)
    /\ UNCHANGED <<limiter, clock, overflow_checks, ctor, credited, l_rate, l_passed, l_prev, l_curr,
                   l_max, counters, solo>>

\* line 54: let passed = now - self.last_check.swap(now, Relaxed)
LimitSwapLastCheck(t) ==
    /\ pc[t] = "l_swap"
    /\ last_check' = l_now[t]
    /\ IF Panics(l_now[t] - last_check)
       THEN Panic(t) /\ UNCHANGED credited
       ELSE /\ l_passed' = [l_passed EXCEPT ![t] = Wrap(l_now[t] - last_check)]
            /\ pc' = [pc EXCEPT ![t] = "l_load"]
            /\ credited' = credited + Wrap(l_now[t] - last_check)
            /\ UNCHANGED <<l_rate, l_now, l_prev, l_curr, l_max>>
    /\ UNCHANGED <<rate, allowance, max, unit, clock, overflow_checks, ctor, counters, solo,
                   hist>>

\* lines 58-61: let mut prev = self.allowance.load(Relaxed);
\*              let mut curr = prev + (passed * rate)
LimitLoadAllowance(t) ==
    /\ pc[t] = "l_load"
    /\ IF Panics(AccrueExact(allowance, l_passed[t], l_rate[t]))
       THEN Panic(t)
       ELSE /\ l_prev' = [l_prev EXCEPT ![t] = allowance]
            /\ l_curr' = [l_curr EXCEPT ![t] =
                             Wrap(AccrueExact(allowance, l_passed[t], l_rate[t]))]
            /\ pc' = [pc EXCEPT ![t] = "l_cas"]
            /\ UNCHANGED <<l_rate, l_now, l_passed, l_max>>
    /\ UNCHANGED <<limiter, clock, overflow_checks, ctor, credited, counters, solo, hist>>

\* lines 63-75: the compare_exchange_weak loop, one iteration
LimitCompareExchange(t) ==
    /\ pc[t] = "l_cas"
    /\ IF allowance = l_prev[t]
       THEN /\ allowance' = l_curr[t]
            /\ pc' = [pc EXCEPT ![t] = "l_max"]
            /\ UNCHANGED locals
       ELSE /\ allowance' = allowance
            /\ IF Panics(AccrueExact(allowance, l_passed[t], l_rate[t]))
               THEN Panic(t)
               ELSE /\ l_prev' = [l_prev EXCEPT ![t] = allowance]
                    /\ l_curr' = [l_curr EXCEPT ![t] =
                                     Wrap(AccrueExact(allowance, l_passed[t], l_rate[t]))]
                    /\ UNCHANGED <<pc, l_rate, l_now, l_passed, l_max>>
    /\ UNCHANGED <<rate, max, unit, last_check, clock, overflow_checks, ctor, credited, counters, solo,
                   hist>>

\* line 80: let max = self.max.load(Relaxed)
LimitLoadMax(t) ==
    /\ pc[t] = "l_max"
    /\ l_max' = [l_max EXCEPT ![t] = max]
    /\ pc' = [pc EXCEPT ![t] = "l_clamp"]
    /\ UNCHANGED <<limiter, clock, overflow_checks, ctor, credited, l_rate, l_now, l_passed, l_prev,
                   l_curr, counters, solo, hist>>

\* A limit() that forgets to clamp.
ClampExcessNone(curr, m) == 0

\* line 84: what the clamp subtracts from allowance.
ClampExcess(curr, m) == IF curr >= m THEN curr - m ELSE 0

\* lines 83-86: curr after the clamp.
Clamped(curr, m) == IF curr >= m THEN m ELSE curr

\* line 89: if curr < self.unit
IsLimited(curr) == curr < unit

\* The history after a limit() that returned r and left allowance at `left`;
\* fired: its clamp fired.
SeenLimit(t, r, fired, left) ==
    Seen(t, [hist EXCEPT !.last = r,
                         !.burst = IF hist.upd >= 0 THEN @ + 1 ELSE @,
                         !.badm = IF hist.upd >= 0 /\ r = "ok" THEN @ + 1 ELSE @,
                         !.a0 = IF @ >= 0 /\ fired THEN left ELSE @,
                         !.c0 = IF hist.a0 >= 0 /\ fired THEN last_check ELSE @,
                         !.n0 = IF hist.a0 >= 0 /\ fired
                                THEN (IF r = "ok" THEN admitted + 1 ELSE admitted)
                                ELSE @])

\* lines 83-89: the clamp, then the decision.
LimitClamp(t) ==
    /\ pc[t] = "l_clamp"
    /\ allowance' = Wrap(allowance - ClampExcess(l_curr[t], l_max[t]))
    /\ l_curr' = [l_curr EXCEPT ![t] = Clamped(l_curr[t], l_max[t])]
    /\ pc' = [pc EXCEPT ![t] = IF IsLimited(Clamped(l_curr[t], l_max[t]))
                               THEN "l_print" ELSE "l_sub"]
    /\ UNCHANGED <<rate, max, unit, last_check, clock, overflow_checks, ctor, credited,
                   l_rate, l_now, l_passed, l_prev, l_max, counters, solo, hist>>

\* lines 90-91: println!("rate-limit!!!!"); return true.  The limited call
\* locks stdout and writes a line before it returns.  It stays here as long as
\* the lock is held or the write blocks (a full pipe that nobody reads), and
\* println! panics when the write fails (a closed pipe, a full device),
\* whatever the build.
LimitPrint(t) ==
    /\ pc[t] = "l_print"
    /\ \/ /\ Return(t, "ret_limit")
          /\ hist' = SeenLimit(t, "limited", l_curr[t] = l_max[t], allowance)
       \/ /\ Panic(t)
          /\ UNCHANGED hist
    /\ UNCHANGED <<limiter, clock, overflow_checks, ctor, credited, counters, solo>>

\* line 95: what one permit costs.
ConsumeAmount == unit

\* lines 95-97: self.allowance.fetch_sub(self.unit, Relaxed); false
LimitConsume(t) ==
    /\ pc[t] = "l_sub"
    /\ allowance' = Wrap(allowance - ConsumeAmount)
    /\ Return(t, "ret_limit")
    /\ admitted' = admitted + 1
    /\ hist' = SeenLimit(t, "ok", l_curr[t] = l_max[t], Wrap(allowance - ConsumeAmount))
    /\ UNCHANGED <<rate, max, unit, last_check, clock, overflow_checks, ctor, credited, started, limits,
                   solo>>

(***************************************************************************)
(* Limiter::undo                                                           *)
(***************************************************************************)
\* line 102: let max = self.max.load(Relaxed)
UndoLoadMax(t) ==
    /\ Begin(t)
    /\ l_max' = [l_max EXCEPT ![t] = max]
    /\ pc' = [pc EXCEPT ![t] = "u_add"]
    /\ hist' = Seen(t, [hist EXCEPT
                          !.snap = IF pc[t] = "ret_limit" /\ hist.last = "ok" THEN @ ELSE -1,
                          !.last = "none", !.upd = -1, !.first = -1,
                          !.burst = 0, !.badm = 0, !.a0 = -1, !.c0 = -1, !.n0 = -1])
    /\ UNCHANGED <<limiter, clock, overflow_checks, ctor, credited, l_rate, l_now, l_passed, l_prev,
                   l_curr, limits, admitted>>

\* line 105: if prev >= max
UndoOvershoots(prev, m) == prev >= m

\* An undo() that gives back `rate` instead of `unit`.
RefundAmountRate == rate

\* line 103: what undo() gives back.
RefundAmount == unit

\* lines 103-105: let prev = self.allowance.fetch_add(self.unit, Relaxed)
UndoFetchAdd(t) ==
    /\ pc[t] = "u_add"
    /\ allowance' = Wrap(allowance + RefundAmount)
    /\ IF UndoOvershoots(allowance, l_max[t])
       THEN /\ l_prev' = [l_prev EXCEPT ![t] = allowance]
            /\ pc' = [pc EXCEPT ![t] = "u_fix"]
            /\ UNCHANGED <<l_rate, l_now, l_passed, l_curr, l_max>>
       ELSE Return(t, "ret_undo")
    /\ UNCHANGED <<rate, max, unit, last_check, clock, overflow_checks, ctor, credited, counters, solo,
                   hist>>

\* line 106: self.allowance.fetch_add(max - prev, Relaxed)
UndoCompensate(t) ==
    /\ pc[t] = "u_fix"
    /\ IF Panics(l_max[t] - l_prev[t])
       THEN /\ Panic(t)
            /\ allowance' = allowance
       ELSE /\ allowance' = Wrap(allowance + Wrap(l_max[t] - l_prev[t]))
            /\ Return(t, "ret_undo")
    /\ UNCHANGED <<rate, max, unit, last_check, clock, overflow_checks, ctor, credited, counters, solo,
                   hist>>

(***************************************************************************)
(* Limiter::update_rate                                                    *)
(***************************************************************************)
\* lines 38-40: let rate = rate as u64; self.rate.store(rate, Relaxed)
UpdateStoreRate(t, r) ==
    /\ Begin(t)
    /\ rate' = AsU64(r)
    /\ l_rate' = [l_rate EXCEPT ![t] = AsU64(r)]
    /\ pc' = [pc EXCEPT ![t] = "r_max"]
    /\ hist' = Seen(t, [hist EXCEPT !.snap = -1, !.last = "none", !.upd = -1,
                                    !.first = -1, !.burst = 0, !.badm = 0,
                                    !.a0 = -1, !.c0 = -1, !.n0 = -1])
    /\ UNCHANGED <<allowance, max, unit, last_check, clock, overflow_checks, ctor, credited, l_now,
                   l_passed, l_prev, l_curr, l_max, limits, admitted>>

\* An update_rate() that also cuts allowance down to the new max.
UpdateStoreMaxRescaling(t) ==
    /\ pc[t] = "r_max"
    /\ IF Panics(l_rate[t] * unit)
       THEN /\ Panic(t)
            /\ UNCHANGED <<max, allowance, hist>>
       ELSE /\ max' = Wrap(l_rate[t] * unit)
            /\ allowance' = IF allowance > Wrap(l_rate[t] * unit)
                            THEN Wrap(l_rate[t] * unit) ELSE allowance
            /\ Return(t, "ret_update")
            /\ hist' = Seen(t, [hist EXCEPT !.upd = clock])
    /\ UNCHANGED <<rate, unit, last_check, clock, overflow_checks, ctor, credited,
                   counters, solo>>

\* line 41: self.max.store(rate * self.unit, Relaxed)
UpdateStoreMax(t) ==
    /\ pc[t] = "r_max"
    /\ IF Panics(l_rate[t] * unit)
       THEN /\ Panic(t)
            /\ UNCHANGED <<max, hist>>
       ELSE /\ max' = Wrap(l_rate[t] * unit)
            /\ Return(t, "ret_update")
            /\ hist' = Seen(t, [hist EXCEPT !.upd = clock])
    /\ UNCHANGED <<rate, allowance, unit, last_check, clock, overflow_checks, ctor, credited, counters,
                   solo>>

(***************************************************************************)
(* Specifications                                                          *)
(***************************************************************************)
\* The steps of a call after its first.
LimitSteps(t) ==
    \/ LimitReadClock(t)
    \/ LimitSwapLastCheck(t)
    \/ LimitLoadAllowance(t)
    \/ LimitCompareExchange(t)
    \/ LimitLoadMax(t)
    \/ LimitClamp(t)
    \/ LimitPrint(t)
    \/ LimitConsume(t)

UndoSteps(t) ==
    \/ UndoFetchAdd(t)
    \/ UndoCompensate(t)

\* Spec: every thread may call every operation, in every interleaving.
Next ==
    \/ clock + 1 <= StartClock + MaxClock /\ Tick(1)
    \/ \E t \in Threads : started < MaxCalls /\ LimitLoadRate(t)
    \/ \E t \in Threads : started < MaxCalls /\ UndoLoadMax(t)
    \/ \E t \in Threads, r \in RateArgs : started < MaxCalls /\ UpdateStoreRate(t, r)
    \/ \E t \in Threads : LimitSteps(t)
    \/ \E t \in Threads : UndoSteps(t)
    \/ \E t \in Threads : UpdateStoreMax(t)

Spec == Init /\ [][Next]_vars

\* The scheduler is weakly fair: a thread that is inside a call takes its next
\* step.  (A compare_exchange_weak that fails spuriously changes nothing, it is
\* a stuttering step; fairness says that it does not fail so for ever.)  The
\* write to stdout is not the scheduler's to complete: nothing says that the
\* other end of a pipe is ever read.
Fairness ==
    \A t \in Threads : WF_vars(\/ pc[t] # "l_print" /\ LimitSteps(t)
                               \/ UndoSteps(t)
                               \/ UpdateStoreMax(t))

\* SpecFair: Spec under that scheduler.
SpecFair == Init /\ [][Next]_vars /\ Fairness

\* SpecSeq: a single-threaded run; thread 1 makes every call.
NextSeq ==
    \/ \E d \in 1 .. LongIdle + ShortIdle : clock + d \in SeqClocks /\ Tick(d)
    \/ started < MaxCallsSeq /\ LimitLoadRate(1)
    \/ started < MaxCallsSeq /\ UndoLoadMax(1)
    \/ \E r \in RateArgs : started < MaxCallsSeq /\ UpdateStoreRate(1, r)
    \/ LimitSteps(1)
    \/ UndoSteps(1)
    \/ UpdateStoreMax(1)

SpecSeq == Init /\ [][NextSeq]_vars

\* SpecLimit: the threads call limit() only.
NextLimit ==
    \/ clock + 1 <= StartClock + MaxClock /\ Tick(1)
    \/ \E t \in Threads : started < MaxCalls /\ LimitLoadRate(t)
    \/ \E t \in Threads : LimitSteps(t)

SpecLimit == Init /\ [][NextLimit]_vars

\* SpecLimitUndo: the threads call limit() and undo().
NextLimitUndo ==
    \/ clock + 1 <= StartClock + MaxClock /\ Tick(1)
    \/ \E t \in Threads : started < MaxCalls /\ LimitLoadRate(t)
    \/ \E t \in Threads : started < MaxCalls /\ UndoLoadMax(t)
    \/ \E t \in Threads : LimitSteps(t)
    \/ \E t \in Threads : UndoSteps(t)

SpecLimitUndo == Init /\ [][NextLimitUndo]_vars

\* SpecUpdate: the threads call update_rate() only.
NextUpdate ==
    \/ clock + 1 <= StartClock + MaxClock /\ Tick(1)
    \/ \E t \in Threads, r \in RateArgs : started < MaxCalls /\ UpdateStoreRate(t, r)
    \/ \E t \in Threads : UpdateStoreMax(t)

SpecUpdate == Init /\ [][NextUpdate]_vars

\* SpecRegress: a single-threaded run of limit() calls under a wall clock that
\* is also set back, never to before the construction.
NextRegress ==
    \/ clock + 1 <= StartClock + ShortIdle /\ Tick(1)
    \/ clock - 1 >= StartClock /\ Regress(1)
    \/ started < MaxCallsSeq /\ LimitLoadRate(1)
    \/ LimitSteps(1)

SpecRegress == Init /\ [][NextRegress]_vars

\* SpecNew: the call of new(), at any reading of the clock.
NextNew ==
    \/ clock + 1 <= StartClock + MaxClock /\ Tick(1)
    \/ New

SpecNew == InitNew /\ [][NextNew]_vars

(***************************************************************************)
(* Properties                                                              *)
(***************************************************************************)
\* The clock advance since construction.
Elapsed == clock - StartClock

\* Every call so far was a limit().
OnlyLimits == limits = started

\* C1. Exact quota: in a single-threaded run of limit() calls during which the
\* clock advances so little that rate x elapsed < unit (or not at all), no call
\* aborts, each of the first `rate` calls returns false and call rate + 1
\* returns true.
ExactQuota ==
    (hist.live /\ OnlyLimits /\ rate * Elapsed < unit) =>
        /\ pc[1] # "panicked"
        /\ pc[1] \in Idle =>
              /\ limits <= rate => admitted = limits
              /\ limits = rate + 1 => admitted = rate /\ hist.last = "limited"

\* C2. No over-admission: while the threads call limit() only, the number of
\* calls that returned false is at most max/unit plus the tokens accrued from
\* the clock advance, floor(rate x elapsed / unit).
NoOverAdmission ==
    admitted <= (max \div unit) + ((rate * Elapsed) \div unit)

\* C3. Replenishment: in a single-threaded run, when a limit() returned true and
\* the clock advances by at least unit/rate before the next call of the thread,
\* which is a limit(), that call returns false.  (The rate is one of the
\* positive arguments and rate x unit fits a word.)
Replenishes ==
    [][(/\ hist.live
        /\ pc[1] \in {"l_print", "l_sub"} /\ pc'[1] = "ret_limit"
        /\ hist.last = "limited"
        /\ l_passed[1] * l_rate[1] >= unit
        /\ rate \in 1 .. MaxRate /\ rate * unit = max)
       => hist'.last = "ok"]_vars

\* C4. Non-negativity: whenever a thread is about to execute the fetch_sub of
\* the clamp or of the consumption, allowance holds at least what it subtracts.
NeverNegative ==
    \A t \in Threads :
        /\ pc[t] = "l_clamp" => ClampExcess(l_curr[t], l_max[t]) <= allowance
        /\ pc[t] = "l_sub" => ConsumeAmount <= allowance

\* C5. Self-correction of the ceiling: when a limit() that began with every
\* other thread outside a call, and ran with none of them calling, has
\* returned, allowance <= max.
SelfCorrects ==
    \A t \in Threads : (solo = t /\ pc[t] = "ret_limit") => allowance <= max

\* Such a limit() found allowance above max and has returned.
SelfCorrectsReached ==
    /\ solo = 1 /\ pc[1] = "ret_limit"
    /\ hist.live /\ hist.snap > max
    /\ allowance <= max

\* C6. Undo round trip: in a single-threaded run without clock advance, when
\* limit() found allowance below max and returned false, and undo() follows it
\* directly, allowance and last_check are what that limit() found.
UndoRoundTrip ==
    (/\ hist.live /\ pc[1] = "ret_undo"
     /\ hist.snap >= 0 /\ hist.snap < max
     /\ clock = StartClock)
    => allowance = hist.snap /\ last_check = StartClock

\* Such a limit()/undo() pair has run, from an allowance below max.
UndoRoundTripReached ==
    /\ hist.live /\ pc[1] = "ret_undo"
    /\ hist.snap >= unit /\ hist.snap < max
    /\ clock = StartClock
    /\ allowance = hist.snap

\* C7. Undo is clamped at the ceiling: after an undo() of a single-threaded run
\* has returned, allowance <= max.
UndoClamped ==
    (hist.live /\ pc[1] = "ret_undo") => allowance <= max

\* C8. Rate update takes effect: in a single-threaded run, after update_rate(R2)
\* with R2 in 1 .. MaxRate (and R2 x unit fitting a word) has returned, the clock has
\* advanced by at least unit before the first limit() read it and not since, a
\* burst of limit() calls returns false R2 times, then true.
RateUpdateTakesEffect ==
    (/\ hist.live /\ pc[1] = "ret_limit"
     /\ hist.upd >= 0 /\ hist.first >= 0
     /\ hist.first - hist.upd >= unit
     /\ clock = hist.first
     /\ rate \in 1 .. MaxRate /\ rate * unit = max)
    => /\ hist.burst <= rate => hist.badm = hist.burst
       /\ hist.burst = rate + 1 => hist.badm = rate /\ hist.last = "limited"

\* C9. update_rate clamps its argument: rate >= 1 in every state of a
\* single-threaded run in which no update_rate() is half way.
RateAtLeastOne == pc[1] # "r_max" => rate >= 1

\* The values update_rate() stores in max for the arguments 1 .. MaxRate.
PositiveMax == {r * unit : r \in 1 .. MaxRate}

\* C10. max tracks rate: whenever no update_rate() is in progress (or has
\* panicked half way), and rate and max are values stored for positive
\* arguments, max is rate x unit.
MaxTracksRate ==
    (/\ \A t \in Threads : pc[t] \notin {"r_max", "panicked"}
     /\ rate \in 1 .. MaxRate /\ max \in PositiveMax)
    => max = rate * unit

\* C11. Clock regression is guarded: when limit() has read a `now` smaller than
\* the last_check it swaps out, the swap does not abort the call and `passed`
\* is zero, so that nothing is accrued.
RegressionGuarded ==
    [][(/\ pc[1] = "l_swap" /\ pc'[1] # "l_swap"
        /\ l_now[1] < last_check)
       => pc'[1] = "l_load" /\ l_passed'[1] = 0]_vars
\* C12. Period defaulting: a limiter built by new(rate, per) has unit = one
\* second when per is zero or negative and unit = per when per >= 1 ns, so
\* that unit is the nanosecond count of a positive duration.
PeriodDefaulting ==
    ctor.state = "built"
    => /\ unit = (IF ctor.per <= 0 THEN NanosPerSecond ELSE ctor.per)
       /\ unit \in 1 .. MaxInt

\* C13. Construction post-state: for every signed rate and every period of
\* 0 .. MaxPeriod nanoseconds, new(rate, per) returns a limiter with
\* rate = max(rate, 1), allowance = max = rate x unit and last_check = the
\* clock reading at construction.
ConstructionPostState ==
    (ctor.state # "args" /\ ctor.per \in PeriodArgs)
    => /\ ctor.state = "built"
       /\ rate = (IF ctor.rate < 1 THEN 1 ELSE ctor.rate)
       /\ allowance = rate * unit
       /\ max = rate * unit
       /\ last_check = Wrap(ctor.at)
\* C14. Termination without blocking: under a weakly fair scheduler every call
\* that a thread has begun, of limit(), undo() or update_rate(), returns.
Terminates ==
    \A t \in Threads : (pc[t] \notin Quiescent) ~> (pc[t] \in Idle)
\* C15. update_rate frame: neither step of an update_rate() call changes
\* allowance, last_check or unit, whatever allowance is.
UpdateRateFrame ==
    [][(\E t \in Threads : \/ pc[t] # "r_max" /\ pc'[t] = "r_max"
                           \/ pc[t] = "r_max" /\ pc'[t] # "r_max")
       => UNCHANGED <<allowance, last_check, unit>>]_vars

\* An update_rate() to a smaller rate has returned, the first call of a run:
\* allowance, still the budget new() gave, is above the new max.
UpdateRateFrameReached ==
    /\ hist.live /\ pc[1] = "ret_update" /\ started = 1
    /\ rate >= 1 /\ max = rate * unit
    /\ allowance > max
\* The budget a limit() call of a single-threaded run decides on: what it
\* found, plus passed x rate, at most max.
Budget ==
    IF hist.snap + l_passed[1] * l_rate[1] < l_max[1]
    THEN hist.snap + l_passed[1] * l_rate[1] ELSE l_max[1]

\* C16. limit() decision and consumption: a limit() call of a single-threaded
\* run of limit() calls does not abort, and when it returns, with
\* a = min(allowance found + passed x rate, max): it returns true and leaves
\* allowance = a if a < unit, it returns false and leaves allowance = a - unit
\* otherwise.
LimitDecision ==
    [][(hist.live /\ OnlyLimits /\ pc[1] \notin Quiescent)
       => /\ pc'[1] # "panicked"
          /\ pc'[1] = "ret_limit" =>
                IF Budget < unit
                THEN hist'.last = "limited" /\ allowance' = Budget
                ELSE hist'.last = "ok" /\ allowance' = Budget - unit]_vars
\* C17. Elapsed time is attributed once: while the threads call limit() only
\* and the clock never goes back, the `passed` values the calls computed sum
\* to at most the clock advance since construction.
ElapsedOnce == credited <= Elapsed

\* C18. The clock read and the swap behave as one step: while the threads call
\* limit() only and the clock never goes back, a caller about to swap `now`
\* into last_check finds there a value that is at most its `now`.
SwapInOrder ==
    \A t \in Threads : pc[t] = "l_swap" => last_check <= l_now[t]
\* C19. Accrual is not lost across limited calls: in a single-threaded run of
\* limit() calls under a clock that never goes back, after the calls that
\* followed the latest firing of the clamp (or new()),
\* allowance = the allowance then + rate x (the advance of last_check since)
\*             - unit x (the calls that returned false since).
AccrualKept ==
    (hist.live /\ OnlyLimits /\ pc[1] \in Idle)
    => allowance = hist.a0 + rate * (last_check - hist.c0)
                           - unit * (admitted - hist.n0)
\* C20. Accrual does not wrap: in a single-threaded run of limit() calls on a
\* limiter whose rate x unit fits a word, whatever the idle time between two
\* calls, computing the candidate (lines 58-61) does not abort the call and
\* the candidate is the exact prev + passed x rate.
AccrualDoesNotWrap ==
    [][(hist.live /\ OnlyLimits /\ pc[1] = "l_load" /\ pc'[1] # "l_load")
       => /\ pc'[1] = "l_cas"
          /\ l_curr'[1] = AccrueExact(l_prev'[1], l_passed[1], l_rate[1])]_vars

====
